---- MODULE Spec2Model ----
(***************************************************************************)
(* stabbie: one reconciliation pass over the remote entries of the fstab.  *)
(*                                                                         *)
(* Spec models main and Application.run (src/stabbie/stabbie.py): the      *)
(* fstab is parsed, the entries are filtered, the eligible ones are handed *)
(* to a multiprocessing Pool with map_async, every pool worker is a        *)
(* separate process that runs Application.refresh_remote_fstab_entry on    *)
(* the entries of the chunks it takes, and the parent joins the pool,      *)
(* writes the error summary and exits.                                     *)
(***************************************************************************)
EXTENDS Integers, Sequences, FiniteSets, TLC

\* ------------------------------------------------------------------ bounds
\* longest fstab handed to a pool of any size
MaxEntries == 2
\* largest os.cpu_count(), the number of worker processes of Pool()
MaxProcesses == 2
\* longest fstab handed to a pool of one worker (map_async then groups
\* several entries into one task)
LongEntries == 5
\* most NFS entries built while parsing (SpecIntern)
MaxBuilt == 3
\* most lines of a file made of lines of every form (SpecParse)
MaxLines == 3
\* most entries of a table on a system where stat() may fail (SpecStat)
StatEntries == 2
\* most lines of the table of a run by any effective user (SpecPriv)
PrivEntries == 2

\* ------------------------------------------------- strings and integers
\* A string is a sequence of one-character strings.
Digits == <<"0", "1", "2", "3", "4", "5", "6", "7", "8", "9">>
IsDigit(c) == \E d \in DOMAIN Digits : Digits[d] = c
DigitValue(c) == (CHOOSE d \in DOMAIN Digits : Digits[d] = c) - 1

Positions(str, c) == {i \in DOMAIN str : str[i] = c}
Max(S) == CHOOSE x \in S : \A y \in S : y <= x
Min(S) == CHOOSE x \in S : \A y \in S : x <= y

\* the whitespace of str.strip() and int() among the characters used here
Whitespace == {" ", "\t", "\n", "\r", "\f"}

\* str.strip()
Strip(str) ==
    LET kept == {i \in DOMAIN str : str[i] \notin Whitespace}
    IN IF kept = {} THEN <<>> ELSE SubSeq(str, Min(kept), Max(kept))

\* str.split(sep) for one-character separators, and re.split of an
\* alternation of single characters: the pieces between the separators, empty
\* pieces included
Split(str, seps) ==
    LET at == {i \in DOMAIN str : str[i] \in seps}
        \* the place of the k-th separator; 0 and Len(str) + 1 stand for the ends
        cut(k) == IF k = 0 THEN 0
                  ELSE IF k > Cardinality(at) THEN Len(str) + 1
                  ELSE CHOOSE i \in at : Cardinality({j \in at : j <= i}) = k
    IN [k \in 1..(Cardinality(at) + 1) |-> SubSeq(str, cut(k - 1) + 1, cut(k) - 1)]

\* int(str): whitespace around, an optional sign, then decimal digits, with
\* single underscores allowed between digits; anything else is a ValueError
IntBody(str) ==
    LET s == Strip(str)
    IN IF Len(s) > 0 /\ s[1] \in {"+", "-"} THEN Tail(s) ELSE s

IntOk(str) ==
    LET body == IntBody(str)
    IN /\ Len(body) > 0
       /\ \A i \in DOMAIN body :
             \/ IsDigit(body[i])
             \/ /\ body[i] = "_"
                /\ i > 1 /\ i < Len(body)
                /\ IsDigit(body[i - 1]) /\ IsDigit(body[i + 1])

RECURSIVE DigitsValue(_)
DigitsValue(digits) ==
    IF Len(digits) = 0 THEN 0
    ELSE DigitsValue(SubSeq(digits, 1, Len(digits) - 1)) * 10
         + DigitValue(digits[Len(digits)])

IntOf(str) ==
    LET s == Strip(str)
        value == DigitsValue(SelectSeq(IntBody(str), IsDigit))
    IN IF s[1] = "-" THEN 0 - value ELSE value

\* str(int)
RECURSIVE NatStr(_)
NatStr(n) ==
    IF n < 10 THEN <<Digits[n + 1]>>
    ELSE NatStr(n \div 10) \o <<Digits[(n % 10) + 1]>>

IntStr(n) == IF n < 0 THEN <<"-">> \o NatStr(0 - n) ELSE NatStr(n)

\* cut at the left-most colon
RSplitColon_Leftmost(name) ==
    LET at == Min(Positions(name, ":"))
    IN <<SubSeq(name, 1, at - 1), SubSeq(name, at + 1, Len(name))>>

\* name.rsplit(":", maxsplit=1): two parts, cut at the right-most colon
RSplitColon(name) ==
    LET at == Max(Positions(name, ":"))
    IN <<SubSeq(name, 1, at - 1), SubSeq(name, at + 1, Len(name))>>

\* option.split("=", maxsplit=1): two parts, cut at the left-most "="
SplitEquals(option) ==
    LET at == Min(Positions(option, "="))
    IN <<SubSeq(option, 1, at - 1), SubSeq(option, at + 1, Len(option))>>

\* ------------------------------------------------------ NfsMountOptions
NfsPort == 2049

kVersion == <<"v", "e", "r", "s", "i", "o", "n">>
kPort == <<"p", "o", "r", "t">>

\* NfsMountOptions.from_entry, the loop: the key=value options as a mapping,
\* a later option overriding an earlier one with the same key
RECURSIVE OptionsMapping(_)
OptionsMapping(options) ==
    IF Len(options) = 0 THEN {}
    ELSE LET init == OptionsMapping(SubSeq(options, 1, Len(options) - 1))
             last == options[Len(options)]
         IN IF Positions(last, "=") = {} THEN init
            ELSE LET kv == SplitEquals(last)
                 IN {m \in init : m.key # kv[1]} \cup {[key |-> kv[1], value |-> kv[2]]}

HasKey(mapping, key) == \E m \in mapping : m.key = key
Get(mapping, key) == (CHOOSE m \in mapping : m.key = key).value

\* 2049 whatever the version
DefaultPort_Always(version) == NfsPort

\* NfsMountOptions.from_entry: default_port
DefaultPort(version) == IF version = 4 THEN NfsPort ELSE 0

\* the version is 4 when no option gives it
NfsMountOptions_from_entry_Version4(options) ==
    LET mapping == OptionsMapping(options)
        version == IF HasKey(mapping, kVersion) THEN IntOf(Get(mapping, kVersion)) ELSE 4
        port == IF HasKey(mapping, kPort) THEN IntOf(Get(mapping, kPort))
                ELSE DefaultPort(version)
    IN IF /\ HasKey(mapping, kVersion) => IntOk(Get(mapping, kVersion))
          /\ HasKey(mapping, kPort) => IntOk(Get(mapping, kPort))
       THEN [ok |-> TRUE, version |-> version, port |-> port, warning |-> (port = 0)]
       ELSE [ok |-> FALSE, version |-> 0, port |-> 0, warning |-> FALSE]

\* NfsMountOptions.from_entry: [ok, version, port, warning]; ok is false when
\* int() raises ValueError, warning is true when "RPC discovery of NFS port is
\* not implemented" is logged
NfsMountOptions_from_entry(options) ==
    LET mapping == OptionsMapping(options)
        version_ok == HasKey(mapping, kVersion) => IntOk(Get(mapping, kVersion))
        version == IF HasKey(mapping, kVersion) THEN IntOf(Get(mapping, kVersion)) ELSE 3
        default_port == DefaultPort(version)
        port_ok == HasKey(mapping, kPort) => IntOk(Get(mapping, kPort))
        port == IF HasKey(mapping, kPort) THEN IntOf(Get(mapping, kPort)) ELSE default_port
    IN IF version_ok /\ port_ok
       THEN [ok |-> TRUE, version |-> version, port |-> port, warning |-> (port = 0)]
       ELSE [ok |-> FALSE, version |-> 0, port |-> 0, warning |-> FALSE]

\* --------------------------------------------------------------- constants
\* Application.stabbie_mount_option
stabbie_mount_option == <<"x", "-", "s", "t", "a", "b", "b", "i", "e">>

Opt_marker == stabbie_mount_option
Opt_markerValue == stabbie_mount_option \o <<"=", "1">>
Opt_rw == <<"r", "w">>
Opt_version4 == kVersion \o <<"=", "4">>
Opt_version3 == kVersion \o <<"=", "3">>
Opt_port2049 == kPort \o <<"=", "2", "0", "4", "9">>
Opt_port111 == kPort \o <<"=", "1", "1", "1">>
Opt_portBad == kPort \o <<"=", "x">>

Host_nas == <<"n", "a", "s">>
Host_bak == <<"b", "a", "k">>
Path_a == <<"/", "a">>
Path_b == <<"/", "b">>
Paths == {Path_a, Path_b}

kNfs == <<"n", "f", "s">>
kExt4 == <<"e", "x", "t", "4">>

NoService == [host |-> <<>>, port |-> -1]

\* Service.__str__
ServiceStr(s) == s.host \o <<":">> \o IntStr(s.port)

\* ----------------------------------------------------------------- parsing
\* the comment is left in the line
cleanup_line_KeepComment(line) == Strip(line)

\* FstabBuilder.cleanup_line: line.split("#")[0], then strip()
cleanup_line(line) == Strip(Split(line, {"#"})[1])

\* the empty segments between two separators are kept
Segments_KeepEmpty(line) == Split(line, {"\t", " "})

\* FstabEntryBuilder.from_line: re.split("\t| ", line) without the empty
\* segments
Segments(line) == SelectSeq(Split(line, {"\t", " "}), LAMBDA segment : Len(segment) > 0)

RpcWarning == [level |-> "WARNING", msg |-> "RPC discovery of NFS port is not implemented"]

\* klass(name=..., ...) for klass = FstabEntry: the dataclass keeps its fields
FstabEntry(fields) ==
    [raised |-> FALSE,
     entry |-> <<[klass |-> "FstabEntry", service |-> NoService] @@ fields>>,
     log |-> <<>>]

\* klass(name=..., ...) for klass = NfsFstabEntry: the fields, then
\* __post_init__: name.rsplit(":", maxsplit=1) unpacked into two names (a
\* ValueError when the name has no colon), NfsMountOptions.from_entry (a
\* ValueError when int() refuses the version or the port) and the Service
NfsFstabEntry(fields) ==
    LET options == NfsMountOptions_from_entry(fields.mount_options)
    IN IF Positions(fields.name, ":") = {} \/ ~options.ok
       THEN [raised |-> TRUE, entry |-> <<>>, log |-> <<>>]
       ELSE [raised |-> FALSE,
             entry |-> <<[klass |-> "NfsFstabEntry",
                          service |-> [host |-> RSplitColon(fields.name)[1],
                                       port |-> options.port],
                          remote_path |-> RSplitColon(fields.name)[2]] @@ fields>>,
             log |-> IF options.warning THEN <<RpcWarning>> ELSE <<>>]

\* every type that starts with "nfs" is an NFS type
klass_Prefix(fs_type) ==
    IF Len(fs_type) >= 3 /\ SubSeq(fs_type, 1, 3) = kNfs THEN "NfsFstabEntry" ELSE "FstabEntry"

\* FstabEntryBuilder.from_line: klass = NfsFstabEntry if fs_type == "nfs"
\* else FstabEntry
klass(fs_type) == IF fs_type = kNfs THEN "NfsFstabEntry" ELSE "FstabEntry"

\* the fifth token is taken for the fsck pass number and the sixth for the
\* dump frequency
from_line_Exchanged(line) ==
    LET segments == Segments(line)
        optionals == SubSeq(segments, 4, Len(segments))
    IN IF Len(segments) < 3
          \/ (Len(optionals) > 1 /\ ~IntOk(optionals[2]))
          \/ (Len(optionals) > 2 /\ ~IntOk(optionals[3]))
       THEN [raised |-> TRUE, entry |-> <<>>, log |-> <<>>]
       ELSE LET fields ==
                  [name |-> segments[1],
                   path |-> segments[2],
                   fs_type |-> segments[3],
                   mount_options |-> IF Len(optionals) > 0
                                     THEN Split(optionals[1], {","}) ELSE <<>>,
                   dump_frequency |-> IF Len(optionals) > 2
                                      THEN IntOf(optionals[3]) ELSE 0,
                   fsck_pass_number |-> IF Len(optionals) > 1
                                        THEN IntOf(optionals[2]) ELSE 0]
            IN IF klass(segments[3]) = "NfsFstabEntry"
               THEN NfsFstabEntry(fields) ELSE FstabEntry(fields)

\* FstabEntryBuilder.from_line: the segments unpacked into three names and
\* the optionals (a ValueError with fewer than three segments), the options
\* split at the commas ("" without a fourth segment: it holds no option), the
\* two numbers through int() (a ValueError when it refuses), path being
\* mount_point.path; every exception leaves from_line
from_line(line) ==
    LET segments == Segments(line)
        optionals == SubSeq(segments, 4, Len(segments))
    IN IF Len(segments) < 3
       THEN [raised |-> TRUE, entry |-> <<>>, log |-> <<>>]
       ELSE IF Len(optionals) > 1 /\ ~IntOk(optionals[2])
       THEN [raised |-> TRUE, entry |-> <<>>, log |-> <<>>]
       ELSE IF Len(optionals) > 2 /\ ~IntOk(optionals[3])
       THEN [raised |-> TRUE, entry |-> <<>>, log |-> <<>>]
       ELSE LET fields ==
                  [name |-> segments[1],
                   path |-> segments[2],
                   fs_type |-> segments[3],
                   mount_options |-> IF Len(optionals) > 0
                                     THEN Split(optionals[1], {","}) ELSE <<>>,
                   dump_frequency |-> IF Len(optionals) > 1
                                      THEN IntOf(optionals[2]) ELSE 0,
                   fsck_pass_number |-> IF Len(optionals) > 2
                                        THEN IntOf(optionals[3]) ELSE 0]
            IN IF klass(segments[3]) = "NfsFstabEntry"
               THEN NfsFstabEntry(fields) ELSE FstabEntry(fields)

\* a line that cannot be parsed is left out and the next ones are read
RECURSIVE from_file_SkipLine(_)
from_file_SkipLine(file) ==
    IF Len(file) = 0 THEN [raised |-> FALSE, entries |-> <<>>, log |-> <<>>]
    ELSE LET cleaned_line == cleanup_line(Head(file))
             rest == from_file_SkipLine(Tail(file))
         IN IF Len(cleaned_line) = 0 THEN rest
            ELSE [raised |-> FALSE,
                  entries |-> from_line(cleaned_line).entry \o rest.entries,
                  log |-> from_line(cleaned_line).log \o rest.log]

\* FstabBuilder.from_file: every line of the file in turn, cleaned, skipped
\* when empty, else parsed by from_line and appended; an exception of
\* from_line leaves from_file, and no Fstab is returned
RECURSIVE from_file(_)
from_file(file) ==
    IF Len(file) = 0 THEN [raised |-> FALSE, entries |-> <<>>, log |-> <<>>]
    ELSE LET cleaned_line == cleanup_line(Head(file))
         IN IF Len(cleaned_line) = 0 THEN from_file(Tail(file))
            ELSE LET first == from_line(cleaned_line)
                 IN IF first.raised
                    THEN [raised |-> TRUE, entries |-> <<>>, log |-> <<>>]
                    ELSE LET rest == from_file(Tail(file))
                         IN [raised |-> rest.raised,
                             entries |-> IF rest.raised THEN <<>>
                                         ELSE first.entry \o rest.entries,
                             log |-> first.log \o rest.log]

\* ------------------------------------------------------------------ inputs
\* str.join
RECURSIVE Join(_, _)
Join(sep, parts) ==
    IF Len(parts) = 0 THEN <<>>
    ELSE IF Len(parts) = 1 THEN parts[1]
    ELSE parts[1] \o sep \o Join(sep, Tail(parts))

\* FstabEntry.__str__ (NfsFstabEntry inherits it): the six fields joined by
\* one space, the options joined by commas, the two numbers through str()
FstabEntry_str(entry) ==
    Join(<<" ">>, <<entry.name,
                    entry.path,
                    entry.fs_type,
                    Join(<<",">>, entry.mount_options),
                    IntStr(entry.dump_frequency),
                    IntStr(entry.fsck_pass_number)>>)

\* a line of the file as a text editor leaves it: the fields separated by
\* one space, the options by commas, "0 0" and the end of line at the end
Line(name, path, fs_type, opts) ==
    Join(<<" ">>, <<name, path, fs_type>>
                   \o (IF Len(opts) = 0 THEN <<>> ELSE <<Join(<<",">>, opts)>> \o <<<<"0">>, <<"0">>>>))
    \o <<"\n">>

NfsLine(host, path, opts) == Line(host \o <<":", "/", "x">>, path, kNfs, opts)
GenericLine(path, opts) == Line(<<"/", "d">>, path, kExt4, opts)

EligibleShapes ==
    { NfsLine(Host_nas, Path_a, <<Opt_rw, Opt_marker, Opt_port2049>>),
      NfsLine(Host_nas, Path_b, <<Opt_marker, Opt_version4>>),
      NfsLine(Host_bak, Path_a, <<Opt_marker, Opt_rw>>) }

OtherShapes ==
    { NfsLine(Host_nas, Path_a, <<Opt_rw, Opt_markerValue>>),
      NfsLine(Host_nas, Path_b, <<>>),
      GenericLine(Path_b, <<Opt_marker>>),
      NfsLine(Host_nas, Path_b, <<Opt_marker, Opt_portBad>>) }

LongShapes ==
    { NfsLine(Host_nas, Path_a, <<Opt_rw, Opt_marker, Opt_port2049>>),
      NfsLine(Host_bak, Path_b, <<Opt_marker>>) }

LineShapes == EligibleShapes \cup OtherShapes \cup LongShapes

SeqsUpTo(S, n) == UNION { [1..k -> S] : k \in 0..n }

SmallTables == SeqsUpTo(EligibleShapes \cup OtherShapes, MaxEntries)
LongTables == [1..LongEntries -> LongShapes]

\* ------------------------------------------------------------------- state
VARIABLES
    lines,          \* the fstab file: its lines
    fstab,          \* FstabBuilder().from_file(): the parsed entries, in order
    processes,      \* os.cpu_count(): size of the Pool
    mounted,        \* the OS: the set of paths that are mount points
    stat_fails,     \* the OS: the paths whose stat() fails (EACCES, ESTALE, EIO)
    euid,           \* os.geteuid(): the effective user of the process
    optimize,       \* sys.flags.optimize > 0: python -O or PYTHONOPTIMIZE
    ppc,            \* where main and Application.run are
    exit_status,    \* the exit status of the process, -1 while it runs
    log,            \* the log records of the parent process
    taskqueue,      \* the pool's task queue: chunks of entry indices
    wpc,            \* where each worker process is
    wchunk,         \* the rest of the chunk a worker is mapping over
    wcache,         \* each process's lru_cache of Service.check_is_connectable
    service_ok,     \* local of refresh_mount_point, per worker
    is_mounted,     \* local `mounted` of refresh_mount_point, per worker
    map_result,     \* the AsyncResult of map_async (never read by run)
    refresh_errors, \* Application.__refresh_errors
    warned,         \* the "Some mount points couldn't be refreshed" record
    hist,           \* per entry: what its refresh observed and invoked
    \* parsing (SpecIntern)
    heap,           \* the Service objects created so far, by identity
    new_cached_memo, \* functools.cache of Service.new_cached: arguments -> object
    built,          \* the NfsFstabEntry objects built so far
    parse_pc        \* "parsing", or "raised" once a constructor raised

runVars == <<lines, exit_status, log>>
poolVars == <<fstab, processes, stat_fails, euid, optimize, mounted, ppc, taskqueue, wpc, wchunk, wcache,
              service_ok, is_mounted, map_result, refresh_errors, warned, hist,
              runVars>>
internVars == <<heap, new_cached_memo, built, parse_pc>>
vars == <<poolVars, internVars>>

Workers == 1..processes
Entries == 1..Len(fstab)

\* ---------------------------------------------------------- pure functions
\* Python's `x in list`: equality with one of the elements
InList(x, list) == \E i \in 1..Len(list) : list[i] = x

IsRemoteFstabEntry(entry) == entry.klass = "NfsFstabEntry"

\* the isinstance test left out
fstab_entries_filter_key_MarkerOnly(entry) ==
    InList(stabbie_mount_option, entry.mount_options)

fstab_entries_filter_key(entry) ==
    /\ IsRemoteFstabEntry(entry)
    /\ InList(stabbie_mount_option, entry.mount_options)

RECURSIVE FilterIndices(_, _)
FilterIndices(table, i) ==
    IF i > Len(table) THEN <<>>
    ELSE (IF fstab_entries_filter_key(table[i]) THEN <<i>> ELSE <<>>)
         \o FilterIndices(table, i + 1)

\* Pool.map_async without chunksize: divmod(len(iterable), len(pool) * 4),
\* rounded up; an empty iterable gives no task.
ChunkSize(n, p) ==
    LET q == n \div (p * 4)
        r == n % (p * 4)
    IN IF r > 0 THEN q + 1 ELSE q

RECURSIVE GetTasks(_, _)
GetTasks(items, size) ==
    IF Len(items) = 0 THEN <<>>
    ELSE IF Len(items) <= size THEN <<items>>
    ELSE <<SubSeq(items, 1, size)>> \o GetTasks(SubSeq(items, size + 1, Len(items)), size)

\* functools.lru_cache(maxsize=1) on check_is_connectable(self): one slot for
\* the whole process, keyed by hash/eq of self, that is by str(self).
LruHit(cache, key) == Len(cache) = 1 /\ cache[1].key = key
LruStore(cache, key, value) == <<[key |-> key, value |-> value]>>

\* Application.refresh_error_callback
refresh_error_callback(errors, error) == Append(errors, error)

\* the error_callback argument of pool.map_async in Application.run
map_async_error_callback == "None"

\* the "already mounted" case left out
RefreshAction_NoSkipMounted(ok, mnt) ==
    IF ~ok /\ ~mnt THEN "none"
    ELSE IF ok THEN "mount"
    ELSE "umount"

\* the two commands exchanged
RefreshAction_Exchanged(ok, mnt) ==
    IF ok /\ mnt THEN "none"
    ELSE IF ~ok /\ ~mnt THEN "none"
    ELSE IF ok /\ ~mnt THEN "umount"
    ELSE "mount"

\* the "already unmounted" case left out
RefreshAction_NoSkipUnmounted(ok, mnt) ==
    IF ok /\ mnt THEN "none"
    ELSE IF ok THEN "mount"
    ELSE "umount"

\* RemoteFstabEntry.refresh_mount_point: the if-chain after the two reads
RefreshAction(ok, mnt) ==
    IF ok /\ mnt THEN "none"
    ELSE IF ~ok /\ ~mnt THEN "none"
    ELSE IF ok /\ ~mnt THEN "mount"
    ELSE "umount"


\* ---------------------------------------------------------------- initial
NewHist == [st |-> "pending", pid |-> 0, probed |-> FALSE, ok |-> <<>>,
            mnt |-> <<>>, calls |-> <<>>, argv |-> <<>>, err |-> "", log |-> <<>>]

\* the records a worker logs for an entry
Refreshing(entry) == [level |-> "INFO", msg |-> "Refreshing %s", args |-> <<entry.name>>]
ServiceStatus(entry, ok) ==
    [level |-> "INFO",
     msg |-> IF ok THEN "Service %s: OK" ELSE "Service %s: AWAY",
     args |-> <<ServiceStr(entry.service)>>]
Skipped(entry, mnt) ==
    [level |-> "INFO",
     msg |-> IF mnt THEN "%s skipped, already mounted" ELSE "%s skipped, already unmounted",
     args |-> <<entry.path>>]
Mounted(entry) == [level |-> "INFO", msg |-> "%s mounted", args |-> <<entry.path>>]
Unmounted(entry) == [level |-> "INFO", msg |-> "%s unmounted", args |-> <<entry.path>>]

InternIdle ==
    /\ heap = <<>>
    /\ new_cached_memo = {}
    /\ built = <<>>
    /\ parse_pc = "idle"

Init ==
    /\ processes \in 1..MaxProcesses
    /\ lines \in SmallTables \cup (IF processes = 1 THEN LongTables ELSE {})
    /\ fstab = <<>>
    /\ mounted \in SUBSET Paths
    /\ stat_fails = {}
    /\ euid = 0
    /\ optimize = FALSE
    /\ ppc = "read"
    /\ exit_status = -1
    /\ log = <<>>
    /\ taskqueue = <<>>
    /\ wpc = [w \in Workers |-> "idle"]
    /\ wchunk = [w \in Workers |-> <<>>]
    /\ wcache = [w \in Workers |-> <<>>]
    /\ service_ok = [w \in Workers |-> FALSE]
    /\ is_mounted = [w \in Workers |-> FALSE]
    /\ map_result = [left |-> 0, failed |-> FALSE]
    /\ refresh_errors = <<>>
    /\ warned = FALSE
    /\ hist = <<>>
    /\ InternIdle

\* ----------------------------------------------------------------- parent
ReadingFstab == [level |-> "INFO", msg |-> "Reading fstab"]
SomeNotRefreshed == [level |-> "WARNING", msg |-> "Some mount points couldn't be refreshed"]
Done == [level |-> "INFO", msg |-> "Done"]

\* run: "Reading fstab" and FstabBuilder().from_file(); an exception of
\* from_file leaves run and main, and the interpreter exits with status 1
Run_FromFile ==
    /\ ppc = "read"
    /\ LET parsed == from_file(lines)
       IN /\ log' = log \o <<ReadingFstab>> \o parsed.log
          /\ IF parsed.raised
             THEN /\ ppc' = "raised"
                  /\ exit_status' = 1
                  /\ UNCHANGED <<fstab, hist>>
             ELSE /\ ppc' = "pool"
                  /\ fstab' = parsed.entries
                  /\ hist' = [e \in 1..Len(parsed.entries) |-> NewHist]
                  /\ UNCHANGED exit_status
    /\ UNCHANGED <<lines, processes, stat_fails, euid, optimize, mounted, taskqueue, wpc, wchunk, wcache,
                   service_ok, is_mounted, map_result, refresh_errors, warned>>
    /\ UNCHANGED internVars

\* run: Pool() and pool.map_async(refresh_remote_fstab_entry, filter(...)),
\* without callback nor error_callback; pool.close()
Run_MapAsync ==
    /\ ppc = "pool"
    /\ LET items == FilterIndices(fstab, 1)
       IN /\ taskqueue' = GetTasks(items, ChunkSize(Len(items), processes))
          /\ map_result' = [left |-> Len(GetTasks(items, ChunkSize(Len(items), processes))),
                            failed |-> FALSE]
    /\ ppc' = "join"
    /\ UNCHANGED <<fstab, processes, stat_fails, euid, optimize, mounted, wpc, wchunk, wcache, service_ok,
                   is_mounted, refresh_errors, warned, hist>>
    /\ UNCHANGED <<internVars, runVars>>

\* join returns at once, whatever the workers do
Run_Join_NoWait ==
    /\ ppc = "join"
    /\ ppc' = "summary"
    /\ UNCHANGED <<fstab, processes, stat_fails, euid, optimize, mounted, taskqueue, wpc, wchunk, wcache,
                   service_ok, is_mounted, map_result, refresh_errors, warned, hist>>
    /\ UNCHANGED <<internVars, runVars>>

\* join waits until every submitted entry has been refreshed
Run_Join_EveryEntry ==
    /\ ppc = "join"
    /\ \A e \in Entries :
          fstab_entries_filter_key(fstab[e]) => hist[e].st \in {"returned", "raised"}
    /\ ppc' = "summary"
    /\ UNCHANGED <<fstab, processes, stat_fails, euid, optimize, mounted, taskqueue, wpc, wchunk, wcache,
                   service_ok, is_mounted, map_result, refresh_errors, warned, hist>>
    /\ UNCHANGED <<internVars, runVars>>

\* run: pool.join() returns once every task was taken and every worker is done
Run_Join ==
    /\ ppc = "join"
    /\ taskqueue = <<>>
    /\ \A w \in Workers : wpc[w] = "idle"
    /\ ppc' = "summary"
    /\ UNCHANGED <<fstab, processes, stat_fails, euid, optimize, mounted, taskqueue, wpc, wchunk, wcache,
                   service_ok, is_mounted, map_result, refresh_errors, warned, hist>>
    /\ UNCHANGED <<internVars, runVars>>

\* run: the errors summary and "Done"
Run_Summary ==
    /\ ppc = "summary"
    /\ warned' = (Len(refresh_errors) > 0)
    /\ log' = log \o (IF Len(refresh_errors) > 0 THEN <<SomeNotRefreshed>> ELSE <<>>)
                  \o <<Done>>
    /\ ppc' = "done"
    /\ UNCHANGED <<fstab, processes, stat_fails, euid, optimize, mounted, taskqueue, wpc, wchunk, wcache,
                   service_ok, is_mounted, map_result, refresh_errors, hist>>
    /\ UNCHANGED <<internVars, lines, exit_status>>

\* main: run has returned, sys.exit(0)
Main_Exit ==
    /\ ppc = "done"
    /\ ppc' = "exited"
    /\ exit_status' = 0
    /\ UNCHANGED <<fstab, processes, stat_fails, euid, optimize, mounted, taskqueue, wpc, wchunk, wcache,
                   service_ok, is_mounted, map_result, refresh_errors, warned, hist>>
    /\ UNCHANGED <<internVars, lines, log>>

\* ----------------------------------------------------------------- worker
Current(w) == Head(wchunk[w])
CurrentKey(w) == ServiceStr(fstab[Current(w)].service)
CurrentPath(w) == fstab[Current(w)].path

\* a worker process that has not taken any task yet
Fresh(w) == wpc[w] = "idle" /\ \A e \in Entries : hist[e].pid # w

\* a pool worker takes the next task (a chunk) from the queue; the worker
\* processes are alike until they work, and they are numbered in the order in
\* which they take their first task
Worker_GetTask(w) ==
    /\ ppc = "join"
    /\ wpc[w] = "idle"
    /\ taskqueue # <<>>
    /\ \A v \in Workers : v < w => ~Fresh(v)
    /\ wchunk' = [wchunk EXCEPT ![w] = Head(taskqueue)]
    /\ taskqueue' = Tail(taskqueue)
    /\ wpc' = [wpc EXCEPT ![w] = "refresh"]
    /\ UNCHANGED <<fstab, processes, stat_fails, euid, optimize, mounted, ppc, wcache, service_ok,
                   is_mounted, map_result, refresh_errors, warned, hist>>
    /\ UNCHANGED <<internVars, runVars>>

\* refresh_remote_fstab_entry -> refresh_mount_point -> check_is_connectable:
\* the lru_cache wrapper answers from its slot or calls the function
CheckIsConnectable(w) ==
    /\ wpc[w] = "refresh"
    /\ IF LruHit(wcache[w], CurrentKey(w))
       THEN /\ service_ok' = [service_ok EXCEPT ![w] = wcache[w][1].value]
            /\ hist' = [hist EXCEPT ![Current(w)].st = "running",
                                    ![Current(w)].pid = w,
                                    ![Current(w)].ok = <<wcache[w][1].value>>,
                                    ![Current(w)].log =
                                        <<Refreshing(fstab[Current(w)]),
                                          ServiceStatus(fstab[Current(w)], wcache[w][1].value)>>]
            /\ wpc' = [wpc EXCEPT ![w] = "is_mount"]
       ELSE /\ hist' = [hist EXCEPT ![Current(w)].st = "running",
                                    ![Current(w)].pid = w,
                                    ![Current(w)].probed = TRUE,
                                    ![Current(w)].log = <<Refreshing(fstab[Current(w)])>>]
            /\ wpc' = [wpc EXCEPT ![w] = "connect"]
            /\ UNCHANGED service_ok
    /\ UNCHANGED <<fstab, processes, stat_fails, euid, optimize, mounted, ppc, taskqueue, wchunk, wcache,
                   is_mounted, map_result, refresh_errors, warned>>
    /\ UNCHANGED <<internVars, runVars>>

\* the entry's refresh is over (its locals are gone): mapstar's map() goes on
\* with the chunk, and the worker reports the chunk's result when the chunk is
\* exhausted
NextInChunk(w) ==
    /\ wchunk' = [wchunk EXCEPT ![w] = Tail(wchunk[w])]
    /\ service_ok' = [service_ok EXCEPT ![w] = FALSE]
    /\ is_mounted' = [is_mounted EXCEPT ![w] = FALSE]
    /\ IF Len(wchunk[w]) > 1
       THEN /\ wpc' = [wpc EXCEPT ![w] = "refresh"]
            /\ UNCHANGED map_result
       ELSE /\ wpc' = [wpc EXCEPT ![w] = "idle"]
            /\ map_result' = [map_result EXCEPT !.left = map_result.left - 1]

\* the failed command tried again instead of raising
RaiseInChunk_Retry(w, error) ==
    /\ wpc' = [wpc EXCEPT ![w] = "decide"]
    /\ UNCHANGED <<wchunk, map_result, refresh_errors, service_ok, is_mounted>>

\* an exception leaves mapstar's list(map(func, chunk)): the rest of the chunk
\* is not mapped, the worker reports (False, exception) for the task and the
\* MapResult keeps the first one; it calls the error_callback given to
\* map_async, and run gives none (refresh_error_callback is never registered)
RaiseInChunk(w, error) ==
    /\ wchunk' = [wchunk EXCEPT ![w] = <<>>]
    /\ service_ok' = [service_ok EXCEPT ![w] = FALSE]
    /\ is_mounted' = [is_mounted EXCEPT ![w] = FALSE]
    /\ wpc' = [wpc EXCEPT ![w] = "idle"]
    /\ map_result' = [map_result EXCEPT !.failed = TRUE]
    /\ refresh_errors' =
          IF map_async_error_callback = "refresh_error_callback" /\ ~map_result.failed
          THEN refresh_error_callback(refresh_errors, error)
          ELSE refresh_errors

\* socket.create_connection((host, port), 3, all_errors=True) at that moment:
\* it returns a socket ("connected"), or it raises the ExceptionGroup of the
\* errors of connect (refused, timed out, unreachable), or getaddrinfo raises
\* socket.gaierror because the name cannot be resolved. TCP port 0 is
\* reserved: no connection to it is ever accepted.
ConnectOutcomes(service) ==
    IF service.port = 0 THEN {"ExceptionGroup", "gaierror"}
    ELSE {"connected", "ExceptionGroup", "gaierror"}

\* Service.check_is_connectable, the call of the function under lru_cache:
\* True with the socket, False on ExceptionGroup, which is the only exception
\* caught; lru_cache stores the returned value, and nothing when an exception
\* leaves the function
CreateConnection(w) ==
    /\ wpc[w] = "connect"
    /\ \E outcome \in ConnectOutcomes(fstab[Current(w)].service) :
        IF outcome = "gaierror"
        THEN /\ hist' = [hist EXCEPT ![Current(w)].st = "raised",
                                     ![Current(w)].err = "gaierror"]
             /\ RaiseInChunk(w, [path |-> CurrentPath(w), type |-> "gaierror"])
             /\ UNCHANGED wcache
        ELSE LET up == (outcome = "connected")
             IN /\ wcache' = [wcache EXCEPT ![w] = LruStore(wcache[w], CurrentKey(w), up)]
                /\ service_ok' = [service_ok EXCEPT ![w] = up]
                /\ hist' = [hist EXCEPT ![Current(w)].ok = <<up>>,
                                        ![Current(w)].log =
                                            Append(@, ServiceStatus(fstab[Current(w)], up))]
                /\ wpc' = [wpc EXCEPT ![w] = "is_mount"]
                /\ UNCHANGED <<wchunk, is_mounted, map_result, refresh_errors>>
    /\ UNCHANGED <<fstab, processes, stat_fails, euid, optimize, mounted, ppc, taskqueue, warned>>
    /\ UNCHANGED <<internVars, runVars>>

\* Path(path).is_mount(): stat() of the path, then of its parent; False for
\* a path that is not there, or the OSError of a stat() that fails otherwise
is_mount(path) ==
    IF path \in stat_fails THEN "OSError"
    ELSE IF path \in mounted THEN "True" ELSE "False"

\* the value that the worker last held is given again
check_is_mounted_Remembered(w) == [raised |-> FALSE, value |-> is_mounted[w]]

\* the OSError of is_mount() is not caught
check_is_mounted_Uncaught(w) ==
    [raised |-> is_mount(CurrentPath(w)) = "OSError",
     value |-> is_mount(CurrentPath(w)) = "True"]

\* MountPoint.check_is_mounted: Path(path).is_mount(), asked to the OS, and
\* False on OSError
check_is_mounted(w) ==
    [raised |-> FALSE, value |-> is_mount(CurrentPath(w)) = "True"]

\* refresh_mount_point: mounted = self.mount_point.check_is_mounted(); an
\* exception of the call would leave refresh_mount_point
CheckIsMounted(w) ==
    /\ wpc[w] = "is_mount"
    /\ IF check_is_mounted(w).raised
       THEN /\ hist' = [hist EXCEPT ![Current(w)].st = "raised",
                                    ![Current(w)].err = "OSError"]
            /\ RaiseInChunk(w, [path |-> CurrentPath(w), type |-> "OSError"])
       ELSE /\ is_mounted' = [is_mounted EXCEPT ![w] = check_is_mounted(w).value]
            /\ hist' = [hist EXCEPT ![Current(w)].mnt = Append(@, check_is_mounted(w).value)]
            /\ wpc' = [wpc EXCEPT ![w] = "decide"]
            /\ UNCHANGED <<wchunk, service_ok, map_result, refresh_errors>>
    /\ UNCHANGED <<fstab, processes, stat_fails, euid, optimize, mounted, ppc, taskqueue, wcache, warned>>
    /\ UNCHANGED <<internVars, runVars>>

\* refresh_mount_point: skip and return, or start the mount or umount command
Decide(w) ==
    /\ wpc[w] = "decide"
    /\ LET action == RefreshAction(service_ok[w], is_mounted[w])
       IN IF action = "none"
          THEN /\ hist' = [hist EXCEPT ![Current(w)].st = "returned",
                                       ![Current(w)].log =
                                           Append(@, Skipped(fstab[Current(w)], is_mounted[w]))]
               /\ NextInChunk(w)
          ELSE /\ hist' = [hist EXCEPT ![Current(w)].calls = Append(@, action)]
               /\ wpc' = [wpc EXCEPT ![w] = action]
               /\ UNCHANGED <<wchunk, map_result, service_ok, is_mounted>>
    /\ UNCHANGED <<fstab, processes, stat_fails, euid, optimize, mounted, ppc, taskqueue, wcache,
                   refresh_errors, warned>>
    /\ UNCHANGED <<internVars, runVars>>

\* MountPoint.unmount_force, MountPoint.unmount_lazy: class attributes, which
\* nothing assigns
unmount_force == TRUE
unmount_lazy == TRUE

\* MountPoint.mount_command
mount_command(path) == <<<<"m", "o", "u", "n", "t">>, path>>

\* umount without options
unmount_command_Plain(path) == <<<<"u", "m", "o", "u", "n", "t">>, path>>

\* MountPoint.unmount_command
unmount_command(path) ==
    <<<<"u", "m", "o", "u", "n", "t">>>>
    \o (IF unmount_force THEN <<<<"-", "f">>>> ELSE <<>>)
    \o (IF unmount_lazy THEN <<<<"-", "l">>>> ELSE <<>>)
    \o <<path>>

\* subprocess.run(command, check=True): the command exits with status 0, or
\* it exits with another status (CalledProcessError), or it cannot be started
\* (the OSError of Popen: FileNotFoundError, PermissionError)
RunOutcomes == {"0", "CalledProcessError", "OSError"}

\* the exception classes that `except SubprocessError` catches
IsSubprocessError(exception) == exception = "CalledProcessError"

\* MountPoint.mount: subprocess.run(["mount", path], check=True) ends; a
\* SubprocessError becomes MountError, any other exception goes through, and
\* the exception leaves refresh_mount_point
Mount(w) ==
    /\ wpc[w] = "mount"
    /\ \E outcome \in RunOutcomes :
        IF outcome = "0"
        THEN /\ mounted' = mounted \cup {CurrentPath(w)}
             /\ hist' = [hist EXCEPT ![Current(w)].st = "returned",
                                     ![Current(w)].argv = Append(@, mount_command(CurrentPath(w))),
                                     ![Current(w)].log = Append(@, Mounted(fstab[Current(w)]))]
             /\ NextInChunk(w)
             /\ UNCHANGED refresh_errors
        ELSE LET error == IF IsSubprocessError(outcome) THEN "MountError" ELSE outcome
             IN /\ hist' = [hist EXCEPT ![Current(w)].st = "raised",
                                        ![Current(w)].err = error,
                                        ![Current(w)].argv = Append(@, mount_command(CurrentPath(w)))]
                /\ RaiseInChunk(w, [path |-> CurrentPath(w), type |-> error])
                /\ UNCHANGED mounted
    /\ UNCHANGED <<fstab, processes, stat_fails, euid, optimize, ppc, taskqueue, wcache, warned>>
    /\ UNCHANGED <<internVars, runVars>>

\* MountPoint.unmount: subprocess.run(["umount", "-f", "-l", path], check=True)
\* ends; a SubprocessError becomes UnmountError
Unmount(w) ==
    /\ wpc[w] = "umount"
    /\ \E outcome \in RunOutcomes :
        IF outcome = "0"
        THEN /\ mounted' = mounted \ {CurrentPath(w)}
             /\ hist' = [hist EXCEPT ![Current(w)].st = "returned",
                                     ![Current(w)].argv = Append(@, unmount_command(CurrentPath(w))),
                                     ![Current(w)].log = Append(@, Unmounted(fstab[Current(w)]))]
             /\ NextInChunk(w)
             /\ UNCHANGED refresh_errors
        ELSE LET error == IF IsSubprocessError(outcome) THEN "UnmountError" ELSE outcome
             IN /\ hist' = [hist EXCEPT ![Current(w)].st = "raised",
                                        ![Current(w)].err = error,
                                        ![Current(w)].argv = Append(@, unmount_command(CurrentPath(w)))]
                /\ RaiseInChunk(w, [path |-> CurrentPath(w), type |-> error])
                /\ UNCHANGED mounted
    /\ UNCHANGED <<fstab, processes, stat_fails, euid, optimize, ppc, taskqueue, wcache, warned>>
    /\ UNCHANGED <<internVars, runVars>>

\* ------------------------------------------------------------ specification
Next ==
    \/ Run_FromFile
    \/ Run_MapAsync
    \/ Run_Join
    \/ Run_Summary
    \/ Main_Exit
    \/ \E w \in Workers : Worker_GetTask(w)
    \/ \E w \in Workers : CheckIsConnectable(w)
    \/ \E w \in Workers : CreateConnection(w)
    \/ \E w \in Workers : CheckIsMounted(w)
    \/ \E w \in Workers : Decide(w)
    \/ \E w \in Workers : Mount(w)
    \/ \E w \in Workers : Unmount(w)

Spec == Init /\ [][Next]_vars

\* ------------------------------------------ parsing: interned services
\* functools.cache keyed by the host only
MemoKey_HostOnly(host, port) == <<host>>

\* the key functools.cache makes of the arguments of new_cached
MemoKey(host, port) == <<host, port>>

MemoHit(host, port) == \E m \in new_cached_memo : m.key = MemoKey(host, port)
MemoGet(host, port) == (CHOOSE m \in new_cached_memo : m.key = MemoKey(host, port)).obj

\* NfsFstabEntry.__post_init__ on an entry with this name and these options:
\* rsplit, from_entry, Service.new_cached(host, options.port)
NfsFstabEntry_post_init(name, options) ==
    /\ parse_pc = "parsing"
    /\ Len(built) < MaxBuilt
    /\ LET parts == RSplitColon(name)
           host == parts[1]
           opts == NfsMountOptions_from_entry(options)
       IN IF ~opts.ok
          THEN /\ parse_pc' = "raised"
               /\ UNCHANGED <<heap, new_cached_memo, built>>
          ELSE /\ IF MemoHit(host, opts.port)
                  THEN UNCHANGED <<heap, new_cached_memo>>
                  ELSE /\ heap' = Append(heap, [host |-> host, port |-> opts.port])
                       /\ new_cached_memo' = new_cached_memo \cup
                             {[key |-> MemoKey(host, opts.port), obj |-> Len(heap) + 1]}
               /\ built' = Append(built,
                     [name |-> name, mount_options |-> options,
                      host |-> host, remote_path |-> parts[2], port |-> opts.port,
                      service |-> IF MemoHit(host, opts.port)
                                  THEN MemoGet(host, opts.port) ELSE Len(heap) + 1])
               /\ UNCHANGED parse_pc
    /\ UNCHANGED poolVars


NfsNames ==
    { <<"n", "a", "s", ":", "/", "x">>,
      <<"n", "a", "s", ":", "/", "y">>,
      <<"f", "e", ":", ":", "1", ":", "/", "x">> }

NfsOptionLists ==
    { <<>>,
      <<Opt_marker, Opt_version4>>,
      <<Opt_port2049>>,
      <<Opt_version4, Opt_port111>>,
      <<Opt_port111, Opt_version3, Opt_marker>>,
      <<Opt_portBad>> }


InitIntern ==
    /\ lines = <<>>
    /\ fstab = <<>>
    /\ exit_status = -1
    /\ log = <<>>
    /\ processes = 1
    /\ mounted = {}
    /\ stat_fails = {}
    /\ euid = 0
    /\ optimize = FALSE
    /\ ppc = "parse"
    /\ taskqueue = <<>>
    /\ wpc = [w \in Workers |-> "idle"]
    /\ wchunk = [w \in Workers |-> <<>>]
    /\ wcache = [w \in Workers |-> <<>>]
    /\ service_ok = [w \in Workers |-> FALSE]
    /\ is_mounted = [w \in Workers |-> FALSE]
    /\ map_result = [left |-> 0, failed |-> FALSE]
    /\ refresh_errors = <<>>
    /\ warned = FALSE
    /\ hist = [e \in Entries |-> NewHist]
    /\ heap = <<>>
    /\ new_cached_memo = {}
    /\ built = <<>>
    /\ parse_pc = "parsing"

NextIntern ==
    \E name \in NfsNames, options \in NfsOptionLists :
        NfsFstabEntry_post_init(name, options)

SpecIntern == InitIntern /\ [][NextIntern]_vars


\* --------------------------------------------- parsing: the text of a file
\* SpecParse hands Run_FromFile files of every form: blank lines, comments,
\* tabs and runs of spaces, lines with too few fields, fields that are not
\* numbers, NFS names without colon.
Name_nfs == Host_nas \o <<":", "/", "x">>
Name_ipv6 == <<"f", "e", ":", ":", "1", ":", "/", "x">>
Name_plain == Host_nas

ParseNames == {Name_nfs, Name_ipv6, Name_plain}
ParseTypes == {kNfs, kExt4}
ParseOptions ==
    { Opt_rw,
      Join(<<",">>, <<Opt_marker, Opt_port2049>>),
      Opt_portBad,
      Join(<<",">>, <<kVersion \o <<"=", "y">>, Opt_version4>>),
      kPort \o <<"=">>,
      <<"a", ",", ",", "b", "=", "1">> }
ParseDumps == {<<"0">>, <<"x">>, <<"-", "1">>, <<"1", "_", "0">>}
ParsePasses == {<<"2">>, <<"y">>, <<"+", "3">>}
ParseSeparators == {<<" ">>, <<"\t">>, <<" ", "\t", " ">>}

\* the lists of fields: three mandatory ones, then none to four more
ParseFields ==
    LET three == {<<n, Path_a, t>> : n \in ParseNames, t \in ParseTypes}
        four == {f \o <<o>> : f \in three, o \in ParseOptions}
        five == {f \o <<d>> : f \in four, d \in ParseDumps}
        six == {f \o <<p>> : f \in five, p \in ParsePasses}
        seven == {f \o <<<<"z">>>> : f \in six}
    IN three \cup four \cup five \cup six \cup seven

WideTexts == {Join(sep, f) \o <<"\n">> : sep \in ParseSeparators, f \in ParseFields}

Text_nfs == Line(Name_nfs, Path_a, kNfs, <<Opt_marker, Opt_port2049>>)
Text_generic == Join(<<" ">>, <<<<"/", "d">>, Path_b, kExt4, Opt_marker, <<"0">>, <<"2">>>>)

FewTexts ==
    { <<"\n">>,
      <<" ", " ", "\t", "\r", "\n">>,
      <<"#", " ">> \o Text_nfs,
      <<" ", "#">> \o Text_nfs,
      Text_nfs,
      <<"\t">> \o Join(<<"\t", " ">>, <<Name_ipv6, Path_b, kNfs, Opt_rw>>) \o <<" ", "#", " ", "c", "\n">>,
      Text_generic,
      Join(<<" ">>, <<Name_nfs, Path_a>>) \o <<"#">> \o Join(<<" ">>, <<kNfs, Opt_rw>>) \o <<"\n">>,
      Join(<<" ">>, <<<<"/", "d">>, Path_b, kExt4, Opt_rw, <<"x">>, <<"0">>>>) \o <<"\n">>,
      Join(<<" ">>, <<Name_plain, Path_a, kNfs, Opt_rw>>) \o <<"\n">> }

Name_example == <<"2", "0", "0", "1", ":", "d", "b", "8", ":", ":", "1", ":", "/", "e", "x", "p", "o", "r", "t">>

\* names of "nfs" lines: a host name, IPv6 hosts, nothing before or after
\* the last colon
ParseNfsNames == {Name_nfs, Name_ipv6, Name_example, Host_nas \o <<":">>, <<":", "/", "x">>}

\* option lists of "nfs" lines: versions, ports, both, twice, without "="
ParseNfsOptions ==
    { <<"v", "e", "r", "s", "i", "o", "n", "=", "4">>,
      <<"v", "e", "r", "s", "i", "o", "n", "=", "4", ",", "p", "o", "r", "t", "=", "9", "9", "9", "9">>,
      <<"r", "w", ",", "v", "e", "r", "s", "i", "o", "n", "=", "4", ",", "p", "o", "r", "t", "=", "9", "9", "9", "9">>,
      <<"p", "o", "r", "t", "=", "9", "9", "9", "9", ",", "v", "e", "r", "s", "i", "o", "n", "=", "4">>,
      <<"v", "e", "r", "s", "i", "o", "n", "=", "3">>,
      <<"v", "e", "r", "s", "i", "o", "n", "=", "2">>,
      <<"p", "o", "r", "t", "=", "1", "1", "1", ",", "p", "o", "r", "t", "=", "2", "0", "4", "9">>,
      <<"v", "e", "r", "s", "i", "o", "n", "=", "4", ",", "v", "e", "r", "s", "i", "o", "n", "=", "3">>,
      <<"v", "e", "r", "s", "i", "o", "n", ",", "p", "o", "r", "t">>,
      <<"v", "e", "r", "s", "i", "o", "n", "s", "=", "4">>,
      <<"v", "e", "r", "s", "i", "o", "n", "=", "+", "4", ",", "x", "-", "s", "t", "a", "b", "b", "i", "e">>,
      <<"p", "o", "r", "t", "=", "0", ",", "v", "e", "r", "s", "i", "o", "n", "=", "4">> }

NfsTexts ==
    {Join(<<" ">>, <<n, Path_a, kNfs, o>>) \o <<"\n">> :
        n \in ParseNfsNames, o \in ParseNfsOptions}

\* filesystem types that are not "nfs", some of them remote, on lines that
\* would be eligible with the type "nfs"
ParseOtherTypes == {<<"n", "f", "s", "4">>, <<"c", "i", "f", "s">>, <<"N", "F", "S">>, <<"n", "f">>, <<"s", "s", "h", "f", "s">>}

TypeTexts ==
    {Join(<<" ">>, <<Name_nfs, Path_a, t, o>>) \o <<"\n">> :
        t \in ParseOtherTypes \cup {kNfs},
        o \in {Opt_marker, Join(<<",">>, <<Opt_rw, Opt_marker, Opt_port2049>>)}}

ParseFiles ==
    {<<text>> : text \in WideTexts \cup NfsTexts \cup TypeTexts} \cup SeqsUpTo(FewTexts, MaxLines)

InitParse ==
    /\ processes = 1
    /\ lines \in ParseFiles
    /\ fstab = <<>>
    /\ mounted = {}
    /\ stat_fails = {}
    /\ euid = 0
    /\ optimize = FALSE
    /\ ppc = "read"
    /\ exit_status = -1
    /\ log = <<>>
    /\ taskqueue = <<>>
    /\ wpc = [w \in Workers |-> "idle"]
    /\ wchunk = [w \in Workers |-> <<>>]
    /\ wcache = [w \in Workers |-> <<>>]
    /\ service_ok = [w \in Workers |-> FALSE]
    /\ is_mounted = [w \in Workers |-> FALSE]
    /\ map_result = [left |-> 0, failed |-> FALSE]
    /\ refresh_errors = <<>>
    /\ warned = FALSE
    /\ hist = <<>>
    /\ InternIdle

NextParse == Run_FromFile

SpecParse == InitParse /\ [][NextParse]_vars

\* ------------------------------------------------------ the pass, scheduled
\* what a worker process does
Worker(w) ==
    /\ w \in Workers
    /\ \/ Worker_GetTask(w)
       \/ CheckIsConnectable(w)
       \/ CreateConnection(w)
       \/ CheckIsMounted(w)
       \/ Decide(w)
       \/ Mount(w)
       \/ Unmount(w)

\* the parent process runs on (the read of the file, which is finite, ends;
\* the later steps are taken when they can be), every worker process is
\* scheduled again and again, and every connection attempt and every command
\* ends
Fairness ==
    /\ <>(ppc # "read")
    /\ WF_vars(Run_MapAsync)
    /\ WF_vars(Run_Join)
    /\ WF_vars(Run_Summary)
    /\ WF_vars(Main_Exit)
    /\ \A w \in 1..MaxProcesses : WF_vars(Worker(w))

\* tables of eligible entries, short ones for one or more processes, and
\* for one process long ones, of which a chunk holds two entries (two
\* entries in turn)
FairTables == SeqsUpTo(LongShapes, MaxEntries)
FairLongTables == {table \in LongTables : \A i \in 3..LongEntries : table[i] = table[i - 2]}

InitFair ==
    /\ processes \in 1..MaxProcesses
    /\ lines \in FairTables \cup (IF processes = 1 THEN FairLongTables ELSE {})
    /\ fstab = <<>>
    /\ mounted \in SUBSET Paths
    /\ stat_fails = {}
    /\ euid = 0
    /\ optimize = FALSE
    /\ ppc = "read"
    /\ exit_status = -1
    /\ log = <<>>
    /\ taskqueue = <<>>
    /\ wpc = [w \in Workers |-> "idle"]
    /\ wchunk = [w \in Workers |-> <<>>]
    /\ wcache = [w \in Workers |-> <<>>]
    /\ service_ok = [w \in Workers |-> FALSE]
    /\ is_mounted = [w \in Workers |-> FALSE]
    /\ map_result = [left |-> 0, failed |-> FALSE]
    /\ refresh_errors = <<>>
    /\ warned = FALSE
    /\ hist = <<>>
    /\ InternIdle

SpecFair == InitFair /\ [][Next]_vars /\ Fairness

\* ----------------------------------------- the pass where stat() may fail
\* SpecStat is the pass of Spec, by one worker process, on a system where
\* stat() fails for some of the paths, mounted or not
StatTables == SeqsUpTo(EligibleShapes, StatEntries) \ {<<>>}

InitStat ==
    /\ processes = 1
    /\ lines \in StatTables
    /\ fstab = <<>>
    /\ mounted \in SUBSET Paths
    /\ stat_fails \in SUBSET Paths
    /\ euid = 0
    /\ optimize = FALSE
    /\ ppc = "read"
    /\ exit_status = -1
    /\ log = <<>>
    /\ taskqueue = <<>>
    /\ wpc = [w \in Workers |-> "idle"]
    /\ wchunk = [w \in Workers |-> <<>>]
    /\ wcache = [w \in Workers |-> <<>>]
    /\ service_ok = [w \in Workers |-> FALSE]
    /\ is_mounted = [w \in Workers |-> FALSE]
    /\ map_result = [left |-> 0, failed |-> FALSE]
    /\ refresh_errors = <<>>
    /\ warned = FALSE
    /\ hist = <<>>
    /\ InternIdle

SpecStat == InitStat /\ [][Next]_vars

\* ------------------------------------------------- the privilege check
\* SpecPriv is the whole run, from the first statement of Application.run,
\* by any effective user and with the interpreter optimizing or not. Spec
\* and the other specifications of the pass start after the check, in a
\* run by root.
Uid_root == 0
\* some other user: the check tells root from every other uid alike
Uid_user == Uid_root + 1
Uids == {Uid_root, Uid_user}

\* Application.__check_mount_permissions: `assert os.geteuid() == 0, ...`.
\* An assert statement is `if __debug__: if not ...: raise AssertionError`,
\* and __debug__ is False when the interpreter optimizes (python -O,
\* PYTHONOPTIMIZE): the statement is then compiled away.
check_mount_permissions ==
    IF optimize THEN "passed"
    ELSE IF euid = Uid_root THEN "passed" ELSE "AssertionError"

\* run: the check is its first statement; the AssertionError leaves run
\* and main, and the interpreter exits with status 1. __setup_logging
\* follows a passed check and changes nothing of this state.
Run_CheckMountPermissions ==
    /\ ppc = "check"
    /\ IF check_mount_permissions = "AssertionError"
       THEN /\ ppc' = "raised"
            /\ exit_status' = 1
       ELSE /\ ppc' = "read"
            /\ UNCHANGED exit_status
    /\ UNCHANGED <<fstab, processes, stat_fails, euid, optimize, mounted, taskqueue, wpc,
                   wchunk, wcache, service_ok, is_mounted, map_result,
                   refresh_errors, warned, hist, lines, log>>
    /\ UNCHANGED internVars

PrivTables == SeqsUpTo(EligibleShapes \cup OtherShapes, PrivEntries)

InitPriv ==
    /\ processes = 1
    /\ lines \in PrivTables
    /\ fstab = <<>>
    /\ mounted \in SUBSET Paths
    /\ stat_fails = {}
    /\ euid \in Uids
    /\ optimize \in BOOLEAN
    /\ ppc = "check"
    /\ exit_status = -1
    /\ log = <<>>
    /\ taskqueue = <<>>
    /\ wpc = [w \in Workers |-> "idle"]
    /\ wchunk = [w \in Workers |-> <<>>]
    /\ wcache = [w \in Workers |-> <<>>]
    /\ service_ok = [w \in Workers |-> FALSE]
    /\ is_mounted = [w \in Workers |-> FALSE]
    /\ map_result = [left |-> 0, failed |-> FALSE]
    /\ refresh_errors = <<>>
    /\ warned = FALSE
    /\ hist = <<>>
    /\ InternIdle

NextPriv == Run_CheckMountPermissions \/ Next

SpecPriv == InitPriv /\ [][NextPriv]_vars

\* ------------------------------------------------------------------ claims
Key(e) == ServiceStr(fstab[e].service)
Finished(e) == hist[e].st \in {"returned", "raised"}
Observed(e) == Len(hist[e].ok) = 1 /\ Len(hist[e].mnt) = 1

\* the marker as the claims state it: a remote entry whose option list holds
\* the token x-stabbie
Managed(e) ==
    /\ fstab[e].klass = "NfsFstabEntry"
    /\ \E i \in DOMAIN fstab[e].mount_options : fstab[e].mount_options[i] = stabbie_mount_option

\* C1: whatever (service reachable, path mounted) a refresh observed, what it
\* invoked is the decision table's action: (true, false) mount and nothing
\* else, (false, true) unmount and nothing else, (true, true) and
\* (false, false) neither.
C1_Expected(ok, mnt) ==
    IF ok /\ ~mnt THEN <<"mount">>
    ELSE IF ~ok /\ mnt THEN <<"umount">>
    ELSE <<>>

C1_DecisionTable ==
    \A e \in Entries :
        /\ ~Observed(e) => hist[e].calls = <<>>
        /\ Observed(e) =>
              LET want == C1_Expected(hist[e].ok[1], hist[e].mnt[1])
              IN /\ Finished(e) => hist[e].calls = want
                 /\ hist[e].calls \in {<<>>, want}

C1_Witness ==
    \E e, f \in Entries :
        /\ Finished(e) /\ hist[e].ok = <<TRUE>> /\ hist[e].mnt = <<FALSE>>
        /\ hist[e].calls = <<"mount">>
        /\ Finished(f) /\ hist[f].ok = <<FALSE>> /\ hist[f].mnt = <<TRUE>>
        /\ hist[f].calls = <<"umount">>

\* C2: in one pass the TCP probe of a host:port is executed at most once,
\* whatever the number of entries sharing it and of pool workers, and two
\* probes of one service never run at the same time.
C2_OneProbePerService ==
    /\ \A e, f \in Entries :
          (e # f /\ Key(e) = Key(f)) => ~(hist[e].probed /\ hist[f].probed)
    /\ \A v, w \in Workers :
          (v # w /\ wpc[v] = "connect" /\ wpc[w] = "connect")
              => CurrentKey(v) # CurrentKey(w)

\* C3: every eligible entry's refresh is executed to its decision (verdict
\* obtained, mount state read, command attempted if required) even when the
\* refresh of another entry raises MountError or UnmountError.
C3_AllRefreshed ==
    ppc = "done" =>
        \A e \in Entries : Managed(e) => (Observed(e) /\ Finished(e))

\* C4: at the end of a pass the refresh-error list holds exactly one error for
\* each entry whose mount or unmount raised, and the aggregate warning is
\* emitted if and only if at least one entry failed.
C4_ErrorsAggregated ==
    ppc = "done" =>
        /\ Len(refresh_errors) = Cardinality({e \in Entries : hist[e].st = "raised"})
        /\ \A e \in Entries : hist[e].st = "raised" =>
              \E i \in DOMAIN refresh_errors : refresh_errors[i].path = fstab[e].path
        /\ warned <=> (\E e \in Entries : hist[e].st = "raised")

\* C5: a pass acts only on remote entries whose option list holds the token
\* x-stabbie; for every other entry there is no probe, no mount-state read,
\* no mount and no unmount, and the entry is never handed to the pool.
C5_OnlyMarkedRemote ==
    \A e \in Entries :
        ~Managed(e) =>
            /\ hist[e] = NewHist
            /\ \A i \in DOMAIN taskqueue : ~InList(e, taskqueue[i])
            /\ \A w \in Workers : ~InList(e, wchunk[w])

C5_Witness ==
    /\ ppc = "done"
    /\ \E e, g \in Entries :
        /\ fstab[e].klass = "FstabEntry" /\ InList(stabbie_mount_option, fstab[e].mount_options)
        /\ Managed(g) /\ hist[g].st = "returned" /\ hist[g].calls # <<>>

\* C6: within one pass the refresh of an entry invokes mount or unmount on
\* its path at most once in total; after a failure no second invocation is
\* made for that entry.
C6_AtMostOneInvocation ==
    \A e \in Entries : Len(hist[e].calls) <= 1

C6_Witness ==
    /\ ppc = "done"
    /\ \E e \in Entries : hist[e].st = "raised" /\ Len(hist[e].calls) = 1

\* C7: after refresh_mount_point returned without raising, and while no
\* other refresh has invoked a command on the same path, the path is mounted
\* if and only if the verdict that refresh used was true.
C7_NothingElseActs(e) ==
    \A f \in Entries \ {e} :
        fstab[f].path = fstab[e].path => hist[f].calls = <<>>

C8_ProbedOncePerProcess ==
    \A e, f \in Entries :
        (e # f /\ hist[e].pid # 0 /\ hist[e].pid = hist[f].pid /\ Key(e) = Key(f))
            => /\ ~(hist[e].probed /\ hist[f].probed)
               /\ (Len(hist[e].ok) = 1 /\ Len(hist[f].ok) = 1) => hist[e].ok = hist[f].ok

\* C9: within one pass, two eligible entries whose service has the same
\* host:port act on the same reachability verdict.
C9_SameVerdict ==
    \A e, f \in Entries :
        (Key(e) = Key(f) /\ Len(hist[e].ok) = 1 /\ Len(hist[f].ok) = 1)
            => hist[e].ok = hist[f].ok

\* C10: after parsing, two NFS entries reference the identical Service
\* object if and only if their host and derived port are both equal:
\* new_cached creates a Service on the first request for a pair and returns
\* that object on every later request.
C10_InternedByHostPort ==
    /\ \A i, j \in DOMAIN built :
          (built[i].service = built[j].service)
              <=> (built[i].host = built[j].host /\ built[i].port = built[j].port)
    /\ \A i \in DOMAIN built :
          /\ built[i].service \in DOMAIN heap
          /\ heap[built[i].service] = [host |-> built[i].host, port |-> built[i].port]
    /\ Len(heap) = Cardinality({<<built[i].host, built[i].port>> : i \in DOMAIN built})

C10_Witness ==
    \E i, j, k \in DOMAIN built :
        /\ i # j /\ built[i].service = built[j].service
        /\ built[i].mount_options # built[j].mount_options
        /\ built[i].port = 2049
        /\ built[k].host = built[i].host /\ built[k].port # built[i].port
        /\ built[k].service # built[i].service

\* C11: when from_line raises on some line of the table, the run is over
\* before the pool exists: no entry is returned, no task is queued, and no
\* worker probes a service, reads a mount state or starts a command, for the
\* entries of the lines before the malformed one as for the others.
C11_Raising ==
    {line \in LineShapes :
        Len(cleanup_line(line)) > 0 /\ from_line(cleanup_line(line)).raised}

C11_SomeLineRaises == \E i \in DOMAIN lines : lines[i] \in C11_Raising

C11_AbortBeforeActing ==
    C11_SomeLineRaises =>
        /\ ppc \in {"read", "raised"}
        /\ fstab = <<>>
        /\ taskqueue = <<>>
        /\ \A w \in Workers : wpc[w] = "idle" /\ wcache[w] = <<>>
        /\ \A e \in DOMAIN hist : ~hist[e].probed /\ hist[e].mnt = <<>> /\ hist[e].calls = <<>>

\* the run has aborted on a second line that is malformed, after a first line
\* that gives an eligible entry
C11_Witness ==
    /\ ppc = "raised"
    /\ exit_status = 1
    /\ Len(lines) = 2
    /\ lines[1] \in EligibleShapes
    /\ fstab_entries_filter_key(from_line(cleanup_line(lines[1])).entry[1])
    /\ lines[2] \in C11_Raising

\* C12: check_is_connectable never raises: every probe that is over has given
\* a verdict to the refresh that called it, true or false, whatever made the
\* connection fail (refused, timed out, name not resolved), and no refresh
\* ends with an exception of the probe.
C12_Probing(e) ==
    \E w \in Workers : wpc[w] = "connect" /\ Current(w) = e

C13_OwnErrorType ==
    \A e \in Entries :
        hist[e].st = "raised" =>
            /\ hist[e].calls = <<"mount">> => hist[e].err = "MountError"
            /\ hist[e].calls = <<"umount">> => hist[e].err = "UnmountError"

\* C14: once the pass has run to its end the process exits with status 0,
\* however many entries failed to mount or unmount, and when some entry failed
\* the failures are surfaced as exactly one warning record of the log (none
\* when no entry failed).
C14_CommandFailed(e) == hist[e].st = "raised" /\ hist[e].calls # <<>>

C14_Warnings == {i \in DOMAIN log : log[i] = SomeNotRefreshed}

C14_ExitZeroOneWarning ==
    ppc = "exited" =>
        /\ exit_status = 0
        /\ IF \E e \in Entries : C14_CommandFailed(e)
           THEN Cardinality(C14_Warnings) = 1
           ELSE Cardinality(C14_Warnings) = 0

\* C15: whatever table the parser accepted, two mount or umount commands on
\* the same path are never in progress at the same time.
C15_OneCommandPerPath ==
    \A v, w \in Workers :
        (v # w /\ wpc[v] \in {"mount", "umount"} /\ wpc[w] \in {"mount", "umount"})
            => CurrentPath(v) # CurrentPath(w)

\* C16: in every refresh the mount state is read from the OS exactly once,
\* after the verdict on the service was obtained and before a command is
\* started; the value the decision uses is the state of the path in the OS at
\* the moment of that read, not a value kept from before, and the command that
\* is started is the one the table gives for the verdict and that value.
C16_OneRead(e) ==
    /\ Len(hist[e].mnt) <= 1
    /\ Len(hist[e].mnt) = 1 => Len(hist[e].ok) = 1
    /\ hist[e].calls # <<>> =>
          /\ Len(hist[e].mnt) = 1
          /\ hist[e].calls = <<RefreshAction(hist[e].ok[1], hist[e].mnt[1])>>
    /\ hist[e].st = "returned" => Len(hist[e].mnt) = 1

C16_ReadIsCurrent(w) ==
    (wpc[w] = "is_mount" /\ wpc'[w] = "decide") =>
        /\ is_mounted'[w] = (fstab[Current(w)].path \in mounted)
        /\ hist'[Current(w)].mnt = <<fstab[Current(w)].path \in mounted>>

C16_ReadOnceBeforeActing ==
    /\ [](\A e \in Entries : C16_OneRead(e))
    /\ [][\A w \in Workers : C16_ReadIsCurrent(w)]_vars

\* one process has refreshed two entries of the same path: the first read
\* "not mounted" and mounted it, the second read "mounted"
C16_Witness ==
    \E e, f \in Entries :
        /\ e # f /\ fstab[e].path = fstab[f].path /\ hist[e].pid = hist[f].pid
        /\ hist[e].st = "returned" /\ hist[e].mnt = <<FALSE>> /\ hist[e].calls = <<"mount">>
        /\ Finished(f) /\ hist[f].mnt = <<TRUE>>

\* C17: the decision procedure is idempotent. When the refresh of an entry
\* has returned without error and the same process later refreshes the same
\* entry again (the table holds the line twice) with the same verdict on the
\* service, and no refresh of another entry has acted on the path, the second
\* refresh starts neither mount nor umount.
C17_SecondRefresh(e, f) ==
    /\ e < f
    /\ fstab[e] = fstab[f]
    /\ hist[e].pid # 0 /\ hist[e].pid = hist[f].pid
    /\ hist[e].st = "returned"
    /\ Observed(f) /\ hist[f].ok = hist[e].ok
    /\ \A g \in Entries \ {e, f} :
          fstab[g].path = fstab[e].path => hist[g].calls = <<>>

C18_Port0(options) ==
    LET mapping == OptionsMapping(options)
    IN IF HasKey(mapping, kPort)
       THEN IntOk(Get(mapping, kPort)) /\ IntOf(Get(mapping, kPort)) = 0
       ELSE HasKey(mapping, kVersion) =>
               (IntOk(Get(mapping, kVersion)) /\ IntOf(Get(mapping, kVersion)) # 4)

C18_Options(line) ==
    LET segments == Segments(cleanup_line(line))
    IN IF Len(segments) > 3 THEN Split(segments[4], {","}) ELSE <<>>

C18_Port0Shapes ==
    {line \in LineShapes :
        /\ Len(Segments(cleanup_line(line))) >= 3
        /\ Segments(cleanup_line(line))[3] = kNfs
        /\ C18_Port0(C18_Options(line))}

C18_Host == [line \in C18_Port0Shapes |-> RSplitColon(Segments(cleanup_line(line))[1])[1]]

C18_Port0Lines == {i \in DOMAIN lines : lines[i] \in C18_Port0Shapes}

C18_NoneRaises ==
    \A line \in C18_Port0Shapes : ~from_line(cleanup_line(line)).raised

C18_Constructed ==
    /\ C18_NoneRaises
    /\ ppc \notin {"read", "raised"} =>
          /\ \A i \in C18_Port0Lines :
                /\ fstab[i].klass = "NfsFstabEntry"
                /\ fstab[i].service = [host |-> C18_Host[lines[i]], port |-> 0]
          /\ Cardinality({k \in DOMAIN log : log[k] = RpcWarning})
                = Cardinality(C18_Port0Lines)

C18_NeverMounted ==
    \A e \in Entries :
        (fstab[e].klass = "NfsFstabEntry" /\ fstab[e].service.port = 0) =>
            \/ hist[e].calls = <<>>
            \/ hist[e].calls = <<"umount">> /\ hist[e].mnt = <<TRUE>>

C18_PortZero == C18_Constructed /\ C18_NeverMounted

\* an eligible entry with port 0, built with its warning, has unmounted its
\* path
C18_Witness ==
    \E e \in Entries :
        /\ e \in C18_Port0Lines
        /\ fstab[e].service.port = 0
        /\ fstab_entries_filter_key(fstab[e])
        /\ \E k \in DOMAIN log : log[k] = RpcWarning
        /\ hist[e].st = "returned" /\ hist[e].calls = <<"umount">>

\* ---- C19
\* a line holds nothing: every character before its first "#" is whitespace
C19_Blank(line) ==
    \A i \in DOMAIN line : (\A j \in 1..i : line[j] # "#") => line[i] \in Whitespace

C19_Kept == {i \in DOMAIN lines : ~C19_Blank(lines[i])}

C19_Kth(k) == CHOOSE i \in C19_Kept : Cardinality({j \in C19_Kept : j <= i}) = k

\* C19: the table from_file returns holds exactly one entry for each line of
\* the file that is not empty once everything from its first "#" is removed
\* and the whitespace around it trimmed, in the order of these lines (the
\* k-th entry is the one of the k-th such line, with its name, path and
\* type); blank lines and comment lines give no entry, and never make
\* from_file fail.
C19_OneEntryPerLine ==
    /\ ppc \notin {"read", "raised"} =>
          /\ Len(fstab) = Cardinality(C19_Kept)
          /\ \A k \in DOMAIN fstab :
                LET line == cleanup_line(lines[C19_Kth(k)])
                IN /\ fstab[k] = from_line(line).entry[1]
                   /\ <<fstab[k].name, fstab[k].path, fstab[k].fs_type>>
                         = SubSeq(Segments(line), 1, 3)
    /\ ppc = "raised" =>
          \E i \in C19_Kept : from_line(cleanup_line(lines[i])).raised

\* a file of three lines, a comment between two different entries: two
\* entries are returned
C19_Witness ==
    /\ ppc = "pool"
    /\ Len(lines) = 3
    /\ C19_Kept = {1, 3}
    /\ "#" \in {lines[2][i] : i \in DOMAIN lines[2]}
    /\ Len(fstab) = 2
    /\ fstab[1] # fstab[2]

\* ---- C20
C20_IsSeparator(char) == char \in {" ", "\t"}

\* where the tokens of a line start
C20_Starts(line) ==
    {i \in DOMAIN line :
        ~C20_IsSeparator(line[i]) /\ (i = 1 \/ C20_IsSeparator(line[i - 1]))}

C20_Token(line, k) ==
    LET start == CHOOSE i \in C20_Starts(line) :
                    Cardinality({j \in C20_Starts(line) : j <= i}) = k
        end == CHOOSE i \in start..Len(line) :
                  /\ \A j \in start..i : ~C20_IsSeparator(line[j])
                  /\ i = Len(line) \/ C20_IsSeparator(line[i + 1])
    IN SubSeq(line, start, end)

\* an integer as int() reads one: an optional sign, then digits, single
\* underscores allowed between two digits
C20_IsInteger(token) ==
    LET digit == {"0", "1", "2", "3", "4", "5", "6", "7", "8", "9"}
        body == IF Len(token) > 0 /\ token[1] \in {"+", "-"} THEN Tail(token) ELSE token
    IN /\ Len(body) > 0
       /\ body[1] \in digit
       /\ body[Len(body)] \in digit
       /\ \A i \in DOMAIN body : body[i] \in digit \cup {"_"}
       /\ \A i \in 1..(Len(body) - 1) : ~(body[i] = "_" /\ body[i + 1] = "_")

C20_TooFew(line) == Cardinality(C20_Starts(line)) < 3

C20_NotInteger(line, k) ==
    Cardinality(C20_Starts(line)) >= k /\ ~C20_IsInteger(C20_Token(line, k))

\* the cases the statement names
C20_Stated(line) ==
    C20_TooFew(line) \/ C20_NotInteger(line, 5) \/ C20_NotInteger(line, 6)

C20_HasPrefix(str, prefix) ==
    Len(str) >= Len(prefix) /\ SubSeq(str, 1, Len(prefix)) = prefix

\* the last option "key=value" of the list has a value that is no integer
C20_BadOption(options, key) ==
    \E j \in DOMAIN options :
        /\ C20_HasPrefix(options[j], key \o <<"=">>)
        /\ \A k \in DOMAIN options : k > j => ~C20_HasPrefix(options[k], key \o <<"=">>)
        /\ ~C20_IsInteger(SubSeq(options[j], Len(key) + 2, Len(options[j])))

\* the cases of an "nfs" line the statement leaves out
C20_NfsRefused(line) ==
    /\ ~C20_TooFew(line)
    /\ C20_Token(line, 3) = kNfs
    /\ \/ ":" \notin {C20_Token(line, 1)[i] : i \in DOMAIN C20_Token(line, 1)}
       \/ /\ Cardinality(C20_Starts(line)) >= 4
          /\ LET options == Split(C20_Token(line, 4), {","})
             IN C20_BadOption(options, kVersion) \/ C20_BadOption(options, kPort)

\* C20 as stated: reading a file fails exactly when one of its lines, once
\* cleaned, has fewer than three tokens or a dump-frequency or fsck-pass token
\* that is not an integer; every other line is accepted. An "nfs" line
\* with a name without colon refutes it.
C20_FailsExactlyWhenStated ==
    ppc # "read" =>
        (ppc = "raised" <=> \E i \in C19_Kept : C20_Stated(cleanup_line(lines[i])))

\* C20, amended: from_line fails, and the failure leaves from_file and reaches
\* the caller, exactly when the cleaned line has fewer than three tokens, or
\* its dump-frequency or fsck-pass token is not an integer, or its type is
\* "nfs" and its name holds no colon or its version or port option has a
\* value that is not an integer; every other line is accepted.
C20_FailsExactlyWhen ==
    ppc # "read" =>
        (ppc = "raised" <=>
            \E i \in C19_Kept :
                LET line == cleanup_line(lines[i])
                IN C20_Stated(line) \/ C20_NfsRefused(line))

\* a line of six tokens whose fsck-pass token alone is no integer has made
\* the read fail
C20_Witness ==
    /\ ppc = "raised"
    /\ Len(lines) = 1
    /\ LET line == cleanup_line(lines[1])
       IN /\ Cardinality(C20_Starts(line)) = 6
          /\ C20_IsInteger(C20_Token(line, 5))
          /\ ~C20_IsInteger(C20_Token(line, 6))
          /\ ~C20_NfsRefused(line)

\* ---- C21
C21_OptionSet(entry) == {entry.mount_options[i] : i \in DOMAIN entry.mount_options}

C21_Same(entry, again) ==
    /\ ~again.raised
    /\ C21_OptionSet(again.entry[1]) = C21_OptionSet(entry)
    /\ again.entry[1].dump_frequency = entry.dump_frequency
    /\ again.entry[1].fsck_pass_number = entry.fsck_pass_number

\* C21 as stated: for every line of three to six tokens that parses, the
\* text __str__ gives for its entry parses again, to an entry with the same
\* set of options, the same dump frequency and the same fsck pass number,
\* also when the line has no options, dump and fsck tokens. A line of three
\* tokens refutes it.
C21_RoundTrip ==
    ppc \notin {"read", "raised"} =>
        \A k \in DOMAIN fstab :
            Cardinality(C20_Starts(cleanup_line(lines[C19_Kth(k)]))) \in 3..6 =>
                C21_Same(fstab[k], from_line(cleanup_line(FstabEntry_str(fstab[k]))))

\* ---- C22
\* the place of the last option "key=..." of the list, 0 without one
C22_Last(options, key) ==
    LET at == {j \in DOMAIN options : C20_HasPrefix(options[j], key \o <<"=">>)}
    IN IF at = {} THEN 0 ELSE CHOOSE j \in at : \A k \in at : k <= j

C22_Value(options, key) ==
    LET option == options[C22_Last(options, key)]
    IN IntOf(SubSeq(option, Len(key) + 2, Len(option)))

C22_Version(options) ==
    IF C22_Last(options, kVersion) = 0 THEN 3 ELSE C22_Value(options, kVersion)

C22_Port(options) ==
    IF C22_Last(options, kPort) # 0 THEN C22_Value(options, kPort)
    ELSE IF C22_Version(options) = 4 THEN 2049 ELSE 0

\* C22: for every NFS entry that is built, the version derived from its
\* options is the integer value of its "version" option, 3 without one, and
\* the port of its service is the integer value of its "port" option, or
\* without one 2049 when the version is 4 and 0 for every other version;
\* options without "=" change nothing.
C22_DerivedOptions ==
    ppc \notin {"read", "raised"} =>
        \A k \in DOMAIN fstab :
            fstab[k].klass = "NfsFstabEntry" =>
                LET options == fstab[k].mount_options
                    derived == NfsMountOptions_from_entry(options)
                IN /\ derived.ok
                   /\ derived.version = C22_Version(options)
                   /\ derived.port = C22_Port(options)
                   /\ fstab[k].service.port = C22_Port(options)

\* an entry with an option without "=", version=4 and port=9999 is built:
\* its port is 9999
C22_Witness ==
    /\ ppc = "pool"
    /\ Len(fstab) = 1
    /\ fstab[1].klass = "NfsFstabEntry"
    /\ fstab[1].mount_options = <<Opt_rw, Opt_version4, <<"p", "o", "r", "t", "=", "9", "9", "9", "9">>>>
    /\ fstab[1].service.port = 9999

\* ---- C23
C23_Colons(str) == {i \in DOMAIN str : str[i] = ":"}

\* C23: the name of every NFS entry is its host, a colon and its remote
\* path, and the remote path holds no colon: the name is cut at its
\* right-most colon, the colons of an IPv6 host staying in the host.
C23_RightmostColon ==
    ppc \notin {"read", "raised"} =>
        \A k \in DOMAIN fstab :
            fstab[k].klass = "NfsFstabEntry" =>
                /\ fstab[k].name = fstab[k].service.host \o <<":">> \o fstab[k].remote_path
                /\ C23_Colons(fstab[k].remote_path) = {}

\* "2001:db8::1:/export" has given host "2001:db8::1" and remote path
\* "/export"
C23_Witness ==
    /\ ppc = "pool"
    /\ Len(fstab) = 1
    /\ fstab[1].klass = "NfsFstabEntry"
    /\ fstab[1].name = Name_example
    /\ fstab[1].service.host = <<"2", "0", "0", "1", ":", "d", "b", "8", ":", ":", "1">>
    /\ fstab[1].remote_path = <<"/", "e", "x", "p", "o", "r", "t">>

\* ---- C24
\* the filesystem-type token of the line of the k-th entry
C24_Type(k) == C20_Token(cleanup_line(lines[C19_Kth(k)]), 3)

\* C24: the entry of a line is an NfsFstabEntry, with a Service, exactly
\* when the filesystem-type token of the line is "nfs"; a line of any other
\* type, "nfs4" and "cifs" included, gives a generic FstabEntry without
\* Service, which the filter of the pass never keeps, with or without the
\* marker option.
C24_NfsOnly ==
    ppc \notin {"read", "raised"} =>
        \A k \in DOMAIN fstab :
            /\ fstab[k].klass = "NfsFstabEntry" <=> C24_Type(k) = kNfs
            /\ fstab[k].klass = "FstabEntry" <=> C24_Type(k) # kNfs
            /\ fstab[k].service # NoService <=> C24_Type(k) = kNfs
            /\ C24_Type(k) # kNfs => ~fstab_entries_filter_key(fstab[k])

\* a line of type "nfs4" with the marker option has given a generic entry
C24_Witness ==
    /\ ppc = "pool"
    /\ Len(fstab) = 1
    /\ C24_Type(1) = <<"n", "f", "s", "4">>
    /\ InList(stabbie_mount_option, fstab[1].mount_options)
    /\ fstab[1].klass = "FstabEntry"
    /\ ~fstab_entries_filter_key(fstab[1])

\* ---- C25
\* the cleaned line of the k-th entry, and the number of its tokens
C25_Line(k) == cleanup_line(lines[C19_Kth(k)])
C25_Count(k) == Cardinality(C20_Starts(C25_Line(k)))

\* C25: the tokens of a cleaned line are its runs of characters other than
\* tab and space, and the entry takes them by position: the first is its
\* name, the second its path, the third its filesystem type, the fourth its
\* options, cut at the commas, the fifth its dump frequency and the sixth
\* its fsck pass number; without a fourth token the entry has no option,
\* without a fifth its dump frequency is 0, without a sixth its fsck pass
\* number is 0.
C25_Positional ==
    ppc \notin {"read", "raised"} =>
        \A k \in DOMAIN fstab :
            /\ fstab[k].name = C20_Token(C25_Line(k), 1)
            /\ fstab[k].path = C20_Token(C25_Line(k), 2)
            /\ fstab[k].fs_type = C20_Token(C25_Line(k), 3)
            /\ fstab[k].mount_options =
                  IF C25_Count(k) >= 4 THEN Split(C20_Token(C25_Line(k), 4), {","}) ELSE <<>>
            /\ fstab[k].dump_frequency =
                  IF C25_Count(k) >= 5 THEN IntOf(C20_Token(C25_Line(k), 5)) ELSE 0
            /\ fstab[k].fsck_pass_number =
                  IF C25_Count(k) >= 6 THEN IntOf(C20_Token(C25_Line(k), 6)) ELSE 0

\* a line of six tokens set apart by " \t ", the fifth "-1" and the sixth
\* "+3", has given an entry with dump frequency -1 and fsck pass number 3
C25_Witness ==
    /\ ppc = "pool"
    /\ Len(fstab) = 1
    /\ C25_Count(1) = 6
    /\ "\t" \in {lines[1][i] : i \in DOMAIN lines[1]}
    /\ fstab[1].dump_frequency = -1
    /\ fstab[1].fsck_pass_number = 3

\* ---- C26
\* C26: for an entry whose path cannot be looked up (stat() fails with an
\* OSError), check_is_mounted does not raise and reports "not mounted",
\* whether the path is mounted or not: every mount state the refresh reads is
\* false, the only command it can run is mount, and a refresh that raised
\* before any command did so in the probe.
C26_LookupErrorIsFalse ==
    \A e \in Entries :
        fstab[e].path \in stat_fails =>
            /\ \A i \in DOMAIN hist[e].mnt : hist[e].mnt[i] = FALSE
            /\ \A i \in DOMAIN hist[e].calls : hist[e].calls[i] = "mount"
            /\ (hist[e].st = "raised" /\ hist[e].calls = <<>>) => hist[e].err = "gaierror"

\* the path of an entry is mounted but its lookup fails; its service was
\* reachable, the refresh read "not mounted" and ran mount
C26_Witness ==
    \E e \in Entries :
        /\ fstab[e].path \in stat_fails \cap mounted
        /\ hist[e].ok = <<TRUE>>
        /\ hist[e].mnt = <<FALSE>>
        /\ hist[e].calls = <<"mount">>
        /\ hist[e].st = "returned"

\* ---- C27
\* C27: every command the pass runs for an entry is "mount <path>", two
\* words, when the refresh chose to mount, and "umount -f -l <path>" when it
\* chose to unmount, <path> being the path of the entry; no run of the pass
\* has other options or arguments.
C27_ExactCommands ==
    \A e \in Entries :
        /\ Len(hist[e].argv) <= Len(hist[e].calls)
        /\ \A i \in DOMAIN hist[e].argv :
              hist[e].argv[i] =
                  IF hist[e].calls[i] = "mount"
                  THEN <<<<"m", "o", "u", "n", "t">>, fstab[e].path>>
                  ELSE <<<<"u", "m", "o", "u", "n", "t">>, <<"-", "f">>, <<"-", "l">>, fstab[e].path>>

\* in one pass "umount -f -l /a" was run for an entry and "mount /b" for
\* another
C27_Witness ==
    \E e, f \in Entries :
        /\ hist[e].argv = <<<<<<"u", "m", "o", "u", "n", "t">>, <<"-", "f">>, <<"-", "l">>, Path_a>>>>
        /\ hist[f].argv = <<<<<<"m", "o", "u", "n", "t">>, Path_b>>>>

\* ---- C28
C28_AfterJoin == ppc \in {"summary", "done", "exited"}

C28_AllTerminated ==
    /\ taskqueue = <<>>
    /\ \A w \in Workers : wpc[w] = "idle" /\ wchunk[w] = <<>>
    /\ \A e \in Entries : hist[e].st # "running"

\* C28: from the moment run computes the errors summary, and so when "Done"
\* is logged, every task of the pool has been taken and every worker is idle
\* (no refresh is between its start and its end), and from then on nothing of
\* the pass happens any more: no probe, no read of a mount state, no command,
\* no change of what is mounted.
C28_SummaryAfterRefreshes ==
    /\ [](C28_AfterJoin => C28_AllTerminated)
    /\ [](InList(Done, log) => C28_AfterJoin)
    /\ [][C28_AfterJoin =>
            /\ hist' = hist /\ mounted' = mounted /\ wcache' = wcache
            /\ wpc' = wpc /\ taskqueue' = taskqueue]_vars

\* "Done" is logged after a pass of two processes in which a refresh mounted
\* and a refresh of the other process raised
C28_Witness ==
    /\ InList(Done, log)
    /\ processes = 2
    /\ \E e, f \in Entries :
          /\ hist[e].st = "returned" /\ hist[e].calls = <<"mount">>
          /\ hist[f].st = "raised"
          /\ hist[e].pid # hist[f].pid

\* ---- C29
\* the places of the reachability records and of the outcome records in the
\* records logged for an entry
C29_Statuses(e) ==
    {i \in DOMAIN hist[e].log :
        hist[e].log[i].msg \in {"Service %s: OK", "Service %s: AWAY"}}

C29_Outcomes(e) ==
    {i \in DOMAIN hist[e].log :
        hist[e].log[i].msg \in {"%s skipped, already mounted", "%s skipped, already unmounted",
                                "%s mounted", "%s unmounted"}}

\* the error of the entry is in the summary that run logs
C29_ErrorLogged(e) ==
    /\ InList(SomeNotRefreshed, log)
    /\ \E i \in DOMAIN refresh_errors : refresh_errors[i].path = fstab[e].path

\* C29 as stated: when the pass is over, for every eligible entry exactly one
\* outcome is recorded, skipped, mounted, unmounted or error, after exactly
\* one reachability record, which says OK exactly when the verdict was true;
\* an entry whose mount or umount command failed is logged as an error. An
\* entry whose mount command fails refutes it.
C29_OneOutcomeRecorded ==
    ppc \in {"done", "exited"} =>
        \A e \in Entries :
            Managed(e) =>
                /\ Cardinality(C29_Statuses(e)) = 1
                /\ Cardinality(C29_Outcomes(e)) + (IF C29_ErrorLogged(e) THEN 1 ELSE 0) = 1
                /\ \A i \in C29_Statuses(e) :
                      /\ \A j \in C29_Outcomes(e) : i < j
                      /\ hist[e].log[i].msg = "Service %s: OK" <=> hist[e].ok = <<TRUE>>
                /\ C14_CommandFailed(e) => C29_ErrorLogged(e)

\* ---- C30
\* C30: when every connection attempt and every command ends and every
\* process is scheduled fairly, a run whose table was read always goes on to
\* log "Done" and to exit with status 0, whatever the number of eligible
\* entries, and whether refreshes raised or not.
C30_Terminates ==
    (ppc = "pool") ~> (ppc = "exited" /\ exit_status = 0 /\ InList(Done, log))

\* a pass of five eligible entries is over, "Done" is logged and the process
\* has exited, although a refresh raised
C30_Witness ==
    /\ ppc = "exited"
    /\ InList(Done, log)
    /\ Len(fstab) = LongEntries
    /\ \E e \in Entries : hist[e].st = "raised"

\* ---- C31
\* C31: when the effective user is not root, the run fails at the privilege
\* check, its first step: it never goes on to read the table, so that no
\* line is read or parsed ("Reading fstab" is not logged, fstab stays
\* empty), no refresh is started, and no probe, mount or unmount is made;
\* once it has failed the exit status is 1.
C31_NotRootStopsAtCheck ==
    euid # Uid_root =>
        /\ ppc \in {"check", "raised"}
        /\ ppc = "raised" => exit_status = 1
        /\ fstab = <<>>
        /\ log = <<>>
        /\ hist = <<>>
        /\ taskqueue = <<>>

\* ---- C32
\* the refreshes whose call of check_is_connectable probed, made before
\* the refresh of entry e in the worker process of e (a process refreshes
\* its entries in the order of the table)
C32_ProbesBefore(e) ==
    {d \in 1..(e - 1) : hist[d].pid = hist[e].pid /\ hist[d].probed}

C32_LastProbeBefore(e) ==
    CHOOSE d \in C32_ProbesBefore(e) : \A c \in C32_ProbesBefore(e) : c <= d

============================================================================
